---- MODULE Spec2Model ----
(***************************************************************************)
(* FireProxy: the TCP dynamic connection pool (DynamicConnectionPool), the *)
(* zero-copy pipe (ZeroCopyProxy.setupPipe) and the per-connection handler *)
(* of startTCPServer, as one state machine.  One action is one callback of *)
(* the Node.js event loop (an I/O event, a timer, a setImmediate), run to  *)
(* completion together with the promise continuations it triggers.         *)
(***************************************************************************)
EXTENDS Integers, Sequences, FiniteSets, TLC

\* ---- bounds of the model ------------------------------------------------
NumClients == 3        \* client connections the listener accepts
MaxSockets == 3        \* upstream sockets the pool may dial in one run
MaxBytes == 2           \* bytes each client writes in one run
NumPeers == 2           \* UDP clients (address, port)
MaxUdpSockets == 3      \* upstream UDP sockets created in one run
MaxDatagrams == 2       \* datagrams each UDP client sends in one run
MaxSweeps == 7          \* firings of the UDP idle-sweep interval in one run
MaxStops == 2           \* calls of UDPProxy.stop() in one run
MaxDisturbances == 1   \* socket failures (failed dials, 'error' events) and effective
                       \* monitor / cleanup ticks in one run

\* ---- pool configuration (options of the constructor, small values) ------
minPoolSize == 1
maxPoolSize == 2
initialPoolSize == 2
scaleUpThreshold == 80       \* percent; the code's 0.8
scaleDownThreshold == 30     \* percent; the code's 0.3
scaleUpStep == 1
scaleDownStep == 1

\* ---- durations, in milliseconds -----------------------------------------
TickMs == 5000               \* resolution of the model's clock
waitTimeout == 5000          \* setTimeout of a queued getConnection
staleWaiting == 10000        \* cleanup() drops waiters older than this
scaleInterval == 5000        \* minimum gap between scaling operations

clientTimeout == 300000      \* UDPProxy.clientTimeout
sweepInterval == 60000       \* period of the UDP idle sweep

Clients == 1..NumClients
Socks == 1..MaxSockets
NoSock == 0

VARIABLES
  pool,                  \* this.pool: sequence of {socket, idle, created, errors}
  waitingQueue,          \* this.waitingQueue: sequence of {resolve, age of timestamp}
  stats,                 \* this.stats
  lastActivity,          \* this.lastActivity: socket -> "none" | "recent" | "expired"
  prewarmingInProgress,  \* this.prewarmingInProgress
  scalingLock,           \* this.scalingLock
  lastScaleAge,          \* Date.now() - this.lastScaleTime, capped at scaleInterval
  timers,                \* pending setTimeout callbacks of queued getConnection calls
  sock,                  \* state of each upstream socket
  dialer,                \* who awaits the createConnection() promise of a socket
  client,                \* per accepted client: handler position, local socket, target
  releases,              \* per client: releaseConnection calls of its handlers that took effect
  errored,               \* upstream sockets whose forwarding pair saw an 'error' event
  disturbances,          \* socket failures and effective monitor / cleanup ticks so far
  sent,                  \* per client: the bytes it wrote that the proxy read from it
  received,              \* per client: the bytes the proxy wrote back to it
  echoing,               \* per upstream socket: bytes written to it whose echo the
                         \* proxy has not read yet
  udp,                   \* a UDPProxy object, its sockets and the datagrams in flight
  app,                   \* the process: its signal handling, API server, monitor, listener
  rule,                  \* a forwarding rule of config.forward
  servers,               \* what startTCPServer / startUDPServer made of that rule
  boot,                  \* config.json, and how far the start-up loop over its rules is
  intervals              \* the pool's monitor and cleanup intervals: armed or cleared

\* the TCP forwarder's variables, and the variables of everything else
tcpVars == <<pool, waitingQueue, stats, lastActivity, prewarmingInProgress, scalingLock,
             lastScaleAge, timers, sock, dialer, client, releases, errored, disturbances,
             sent, received, echoing>>
otherVars == <<udp, app, rule, servers, boot, intervals>>
vars == <<tcpVars, otherVars>>

\* The whole mutable state as one record, so that the calls a handler makes
\* compose as functions from state to state.
Cur ==
  [pool |-> pool, waitingQueue |-> waitingQueue, stats |-> stats,
   lastActivity |-> lastActivity, prewarmingInProgress |-> prewarmingInProgress,
   scalingLock |-> scalingLock, lastScaleAge |-> lastScaleAge, timers |-> timers,
   sock |-> sock, dialer |-> dialer, client |-> client, releases |-> releases,
   errored |-> errored, sent |-> sent, received |-> received,
   echoing |-> echoing]

Assign(S) ==
  /\ pool' = S.pool
  /\ waitingQueue' = S.waitingQueue
  /\ stats' = S.stats
  /\ lastActivity' = S.lastActivity
  /\ prewarmingInProgress' = S.prewarmingInProgress
  /\ scalingLock' = S.scalingLock
  /\ lastScaleAge' = S.lastScaleAge
  /\ timers' = S.timers
  /\ sock' = S.sock
  /\ dialer' = S.dialer
  /\ client' = S.client
  /\ releases' = S.releases
  /\ errored' = S.errored
  /\ sent' = S.sent
  /\ received' = S.received
  /\ echoing' = S.echoing

Commit(S) ==
  /\ Assign(S)
  /\ UNCHANGED otherVars

\* ---- helpers --------------------------------------------------------------
Min(a, b) == IF a < b THEN a ELSE b

\* this.pool.findIndex(c => c.socket === socket); 0 stands for -1
findIndex(p, socket) ==
  IF \E i \in 1..Len(p) : p[i].socket = socket
  THEN CHOOSE i \in 1..Len(p) :
         /\ p[i].socket = socket
         /\ \A j \in 1..(i - 1) : p[j].socket # socket
  ELSE 0

\* Array.prototype.splice(i, 1)
splice(p, i) == [j \in 1..(Len(p) - 1) |-> IF j < i THEN p[j] ELSE p[j + 1]]

\* this.pool.filter(c => c.idle).length
idleConnections(p) == Cardinality({i \in 1..Len(p) : p[i].idle})

\* socket.destroyed
destroyed(S, s) == S.sock[s] \in {"destroyed", "closed"}

\* socket.destroy(): the 'close' event follows in a later callback
destroySocket(S, s) ==
  IF S.sock[s] \in {"open", "ended"} THEN [S EXCEPT !.sock[s] = "destroyed"] ELSE S

\* socket.end(): half-close; the socket closes when the peer answers
endSocket(S, s) ==
  IF S.sock[s] = "open" THEN [S EXCEPT !.sock[s] = "ended"] ELSE S

\* tcpLocalSocket.destroy() (and end() followed by destroy())
destroyLocal(S, c) ==
  IF S.client[c].local = "open" THEN [S EXCEPT !.client[c].local = "closing"] ELSE S

\* Clients whose handlers are installed on upstream socket s
PipedOn(S, s) == {c \in Clients : S.client[c].st = "piped" /\ S.client[c].target = s}

\* ---- DynamicConnectionPool ------------------------------------------------
NoDialer == [by |-> "none", client |-> 0]

FreeSocks(S) == {s \in Socks : S.sock[s] = "free"}

\* Date.now() as the pool sees it when it stamps and scores connections: a
\* logical clock that advances with every established connection.
Now(S) == S.stats.totalConnections

\* createConnection(), up to the point where the dial is in flight
createConnection(S, d) ==
  LET s == CHOOSE x \in FreeSocks(S) : \A y \in FreeSocks(S) : x <= y
  IN  [S EXCEPT !.sock[s] = "dialing", !.dialer[s] = d]

\* the handler's continuation after `await pool.getConnection()` returned a
\* socket: setupPipe and the four close/error handlers are installed
installPipe(S, c, s) ==
  [S EXCEPT !.client[c].st = "piped", !.client[c].target = s]

\* a handler that logs the failure and leaves the client socket open
dropClient_keepsSocket(S, c) ==
  [S EXCEPT !.client[c].st = "dropped"]

\* the handler's continuation after getConnection() resolved with null
dropClient(S, c) ==
  [destroyLocal(S, c) EXCEPT !.client[c].st = "dropped"]

\* getConnection(), lines 273-287: push a waiter and arm its 5 s timer
enqueueWaiter(S, c) ==
  LET g == S.client[c].gen + 1
      w == [resolve |-> <<c, g>>, age |-> 0]
  IN  [S EXCEPT !.waitingQueue = Append(@, w),
                !.stats.waitingRequests = @ + 1,
                !.timers = @ \cup {w},
                !.client[c].st = "queue",
                !.client[c].gen = g]

\* score of getConnection(), times 1000 to stay in the integers
Score(conn, now) == (1000 - conn.errors) * 1000 + (now - conn.created)

\* the loop of getConnection(): the first idle entry with the highest score
bestIdle(p, now) ==
  LET idle == {i \in 1..Len(p) : p[i].idle}
  IN  IF idle = {} THEN 0
      ELSE CHOOSE i \in idle :
             \A j \in idle :
               /\ j < i => Score(p[j], now) < Score(p[i], now)
               /\ j > i => Score(p[j], now) <= Score(p[i], now)

getConnection(S, c) ==
  LET b == bestIdle(S.pool, Now(S))
  IN  IF b # 0
      THEN LET s == S.pool[b].socket
           IN  installPipe([S EXCEPT !.pool[b].idle = FALSE,
                                     !.stats.activeConnections = @ + 1,
                                     !.lastActivity[s] = "recent"], c, s)
      ELSE IF Len(S.pool) < maxPoolSize /\ ~S.scalingLock
      THEN [createConnection(S, [by |-> "getConnection", client |-> c])
              EXCEPT !.client[c].st = "dial"]
      ELSE enqueueWaiter(S, c)

\* whether getConnection() can run within the model's bound on sockets
CanGetConnection(S) ==
  (bestIdle(S.pool, Now(S)) = 0 /\ Len(S.pool) < maxPoolSize /\ ~S.scalingLock)
     => FreeSocks(S) # {}

releaseConnection(S, socket) ==
  LET i == findIndex(S.pool, socket)
  IN  IF i = 0 THEN S
      ELSE LET S1 == [S EXCEPT !.pool[i].idle = TRUE,
                               !.stats.activeConnections = @ - 1,
                               !.lastActivity[socket] = "recent"]
           IN  IF Len(S1.waitingQueue) > 0
               THEN LET w == Head(S1.waitingQueue)
                    IN  [S1 EXCEPT !.waitingQueue = Tail(@),
                                   !.stats.waitingRequests = @ - 1,
                                   !.pool[i].idle = FALSE,
                                   !.stats.activeConnections = @ + 1,
                                   \* setImmediate(() => resolve(socket))
                                   !.client[w.resolve[1]].st = "handoff",
                                   !.client[w.resolve[1]].target = socket]
               ELSE S1

removeConnection(S, socket) ==
  LET i == findIndex(S.pool, socket)
      S1 == IF i # 0
            THEN [S EXCEPT !.pool = splice(@, i),
                           !.stats.activeConnections = IF @ > 0 THEN @ - 1 ELSE @]
            ELSE S
      S2 == [S1 EXCEPT !.lastActivity[socket] = "none"]
  IN  IF Len(S2.waitingQueue) > 0
      THEN LET w == Head(S2.waitingQueue)
           IN  [S2 EXCEPT !.waitingQueue = Tail(@),
                          !.stats.waitingRequests = @ - 1,
                          \* setImmediate(() => this.getConnection().then(resolve))
                          !.client[w.resolve[1]].st = "requeue"]
      ELSE S2

settleDial_rejects(S, s, ok) ==
  LET d == S.dialer[s]
      others == {x \in Socks \ {s} : S.sock[x] = "dialing" /\ S.dialer[x].by = d.by}
      S1 == [S EXCEPT !.dialer[s] = NoDialer]
  IN  CASE d.by = "getConnection" ->
             IF ok THEN installPipe(S1, d.client, s) ELSE dropClient(S1, d.client)
        [] d.by = "prewarm" ->
             IF others = {} THEN [S1 EXCEPT !.prewarmingInProgress = FALSE] ELSE S1
        [] d.by = "scaleUp" ->
             IF others = {}
             THEN [S1 EXCEPT !.stats.poolScales = @ + 1, !.scalingLock = FALSE]
             ELSE S1
        [] OTHER -> S1

settleDial_keepsLock(S, s, ok) ==
  LET d == S.dialer[s]
      others == {x \in Socks \ {s} : S.sock[x] = "dialing" /\ S.dialer[x].by = d.by}
      S1 == [S EXCEPT !.dialer[s] = NoDialer]
  IN  CASE d.by = "getConnection" ->
             IF ok THEN installPipe(S1, d.client, s) ELSE enqueueWaiter(S1, d.client)
        [] d.by = "prewarm" ->
             IF others = {} THEN [S1 EXCEPT !.prewarmingInProgress = FALSE] ELSE S1
        [] d.by = "scaleUp" ->
             IF others = {} THEN [S1 EXCEPT !.stats.poolScales = @ + 1] ELSE S1
        [] OTHER -> S1

\* a createConnection() promise settles: what its awaiter does next
settleDial(S, s, ok) ==
  LET d == S.dialer[s]
      others == {x \in Socks \ {s} : S.sock[x] = "dialing" /\ S.dialer[x].by = d.by}
      S1 == [S EXCEPT !.dialer[s] = NoDialer]
  IN  CASE d.by = "getConnection" ->
             IF ok THEN installPipe(S1, d.client, s) ELSE enqueueWaiter(S1, d.client)
        [] d.by = "prewarm" ->
             IF others = {} THEN [S1 EXCEPT !.prewarmingInProgress = FALSE] ELSE S1
        [] d.by = "scaleUp" ->
             IF others = {}
             THEN [S1 EXCEPT !.stats.poolScales = @ + 1, !.scalingLock = FALSE]
             ELSE S1
        [] OTHER -> S1

\* the 'connect' handler of createConnection(), lines 170-213
onConnect(S, s) ==
  LET conn == [socket |-> s, idle |-> TRUE, created |-> Now(S), errors |-> 0]
  IN  settleDial([S EXCEPT !.sock[s] = "open",
                           !.pool = Append(@, conn),
                           !.stats.totalConnections = @ + 1,
                           !.lastActivity[s] = "recent"], s, TRUE)

\* the 'error' handler of a dial that fails, lines 215-218
onDialError(S, s) ==
  settleDial([S EXCEPT !.sock[s] = "closed", !.stats.errors = @ + 1], s, FALSE)

\* ---- monitor / scaleUp / scaleDown / cleanup -------------------------------
RECURSIVE dialMany(_, _, _)
\* the loops of prewarm() and scaleUp(): n calls of createConnection()
dialMany(S, d, n) ==
  IF n <= 0 THEN S ELSE dialMany(createConnection(S, d), d, n - 1)

scaleUp(S) ==
  LET currentSize == Len(S.pool)
      targetIncrease == Min(scaleUpStep, maxPoolSize - currentSize)
      S1 == [S EXCEPT !.scalingLock = TRUE, !.lastScaleAge = 0]
  IN  IF targetIncrease <= 0
      THEN [S1 EXCEPT !.stats.poolScales = @ + 1, !.scalingLock = FALSE]
      ELSE dialMany(S1, [by |-> "scaleUp", client |-> 0], targetIncrease)

RECURSIVE scaleDownLoop(_, _, _, _)
\* the loop of scaleDown(), lines 143-151, from the end of the pool
scaleDownLoop(S, i, removed, targetDecrease) ==
  IF i < 1 \/ removed >= targetDecrease THEN S
  ELSE LET conn == S.pool[i]
       IN  IF conn.idle
           THEN scaleDownLoop([destroySocket(S, conn.socket)
                                 EXCEPT !.pool = splice(@, i),
                                        !.lastActivity[conn.socket] = "none"],
                              i - 1, removed + 1, targetDecrease)
           ELSE scaleDownLoop(S, i - 1, removed, targetDecrease)

Max(a, b) == IF a > b THEN a ELSE b

scaleDown_maxOfStepAndRoom(S) ==
  LET currentSize == Len(S.pool)
      targetDecrease == Max(scaleDownStep, currentSize - minPoolSize)
      S1 == [S EXCEPT !.scalingLock = TRUE, !.lastScaleAge = 0]
  IN  [scaleDownLoop(S1, Len(S1.pool), 0, targetDecrease) EXCEPT !.scalingLock = FALSE]

scaleDown(S) ==
  LET currentSize == Len(S.pool)
      targetDecrease == Min(scaleDownStep, currentSize - minPoolSize)
      S1 == [S EXCEPT !.scalingLock = TRUE, !.lastScaleAge = 0]
  IN  [scaleDownLoop(S1, Len(S1.pool), 0, targetDecrease) EXCEPT !.scalingLock = FALSE]

\* activeRatio > threshold and activeRatio < threshold, in percent
RatioAbove(S, pct) ==
  Len(S.pool) > 0 /\ S.stats.activeConnections * 100 > pct * Len(S.pool)
RatioBelow(S, pct) ==
  IF Len(S.pool) > 0 THEN S.stats.activeConnections * 100 < pct * Len(S.pool) ELSE TRUE

monitor(S) ==
  LET totalPoolSize == Len(S.pool)
  IN  IF S.scalingLock \/ S.lastScaleAge < scaleInterval THEN S
      ELSE IF RatioAbove(S, scaleUpThreshold) /\ totalPoolSize < maxPoolSize
      THEN scaleUp(S)
      ELSE IF RatioBelow(S, scaleDownThreshold) /\ totalPoolSize > minPoolSize
      THEN scaleDown(S)
      ELSE S

RECURSIVE cleanupLoop(_, _)
\* the loop of cleanup(), lines 314-324
cleanupLoop(S, i) ==
  IF i < 1 THEN S
  ELSE LET conn == S.pool[i]
       IN  IF conn.idle /\ S.lastActivity[conn.socket] = "expired"
           THEN cleanupLoop([destroySocket(S, conn.socket)
                               EXCEPT !.pool = splice(@, i),
                                      !.lastActivity[conn.socket] = "none"], i - 1)
           ELSE cleanupLoop(S, i - 1)

cleanup(S) ==
  LET S1 == cleanupLoop(S, Len(S.pool))
      kept == SelectSeq(S1.waitingQueue, LAMBDA q : q.age <= staleWaiting)
  IN  [S1 EXCEPT !.waitingQueue = kept, !.stats.waitingRequests = Len(kept)]

\* ---- the connection handler of startTCPServer and setupPipe ---------------
\* pool.releaseConnection(tcpTargetSocket) called from a handler of client c
handlerRelease(S, c) ==
  LET t == S.client[c].target
      S1 == releaseConnection(S, t)
  IN  IF findIndex(S.pool, t) # 0 THEN [S1 EXCEPT !.releases[c] = @ + 1] ELSE S1

\* 'close' of the client socket: setupPipe 400-405, then the handler 632-637
onLocalClose(S, c) ==
  LET t == S.client[c].target
      S1 == [S EXCEPT !.client[c].local = "closed"]
  IN  IF S.client[c].st # "piped" THEN S1
      ELSE handlerRelease(IF ~destroyed(S1, t) THEN endSocket(S1, t) ELSE S1, c)

\* 'error' of the client socket: setupPipe 394-397 with onError 625-630, then
\* the handler 644-649
onLocalError(S, c) ==
  LET t == S.client[c].target
      S1 == [S EXCEPT !.client[c].local = "closing", !.errored = @ \cup {t}]
      S2 == destroyLocal(destroySocket(handlerRelease(S1, c), t), c)
  IN  destroySocket(handlerRelease(S2, c), t)

RECURSIVE targetErrorHandlers(_, _, _)
\* 'error' of an upstream socket as each pair on it sees it: setupPipe 389-392
\* with onError 625-630, then the handler 651-656
targetErrorHandlers(S, s, c) ==
  IF c > NumClients THEN S
  ELSE IF c \in PipedOn(S, s)
  THEN LET S1 == destroyLocal(destroySocket(handlerRelease(S, c), s), c)
       IN  targetErrorHandlers(destroyLocal(handlerRelease(S1, c), c), s, c + 1)
  ELSE targetErrorHandlers(S, s, c + 1)

\* 'error' of an established upstream socket: createConnection 215-218 and
\* 205-210, then the handlers of the pairs
onTargetError(S, s) ==
  LET i == findIndex(S.pool, s)
      S1 == [S EXCEPT !.sock[s] = "destroyed",
                      !.errored = @ \cup {s},
                      !.stats.errors = @ + 2]
      S2 == IF i # 0 THEN [S1 EXCEPT !.pool[i].errors = @ + 1] ELSE S1
  IN  targetErrorHandlers(removeConnection(S2, s), s, 1)

RECURSIVE targetCloseHandlers(_, _, _)
\* 'close' of an upstream socket as each pair on it sees it: setupPipe 407-412,
\* then the handler 639-642
targetCloseHandlers(S, s, c) ==
  IF c > NumClients THEN S
  ELSE IF c \in PipedOn(S, s)
  THEN targetCloseHandlers(destroyLocal(S, c), s, c + 1)
  ELSE targetCloseHandlers(S, s, c + 1)

onTargetClose_withoutRemove(S, s) ==
  targetCloseHandlers([S EXCEPT !.sock[s] = "closed"], s, 1)

\* 'close' of an established upstream socket: createConnection 200-203 first
onTargetClose(S, s) ==
  targetCloseHandlers(removeConnection([S EXCEPT !.sock[s] = "closed"], s), s, 1)

\* the setTimeout callback of getConnection(), lines 279-286
onWaitTimeout(S, t) ==
  LET S1 == [S EXCEPT !.timers = @ \ {t}]
      hit == {i \in 1..Len(S.waitingQueue) : S.waitingQueue[i].resolve = t.resolve}
  IN  IF hit = {} THEN S1
      ELSE LET queueIndex == CHOOSE i \in hit : \A j \in hit : i <= j
           IN  dropClient([S1 EXCEPT !.waitingQueue = splice(@, queueIndex),
                                     !.stats.waitingRequests = @ - 1],
                          t.resolve[1])

RECURSIVE resolveWaiters(_, _)
\* destroy(), lines 348-350: waiting.resolve(null) for each queued waiter, whose
\* handler then destroys its client socket
resolveWaiters(S, q) ==
  IF q = <<>> THEN S
  ELSE resolveWaiters(dropClient(S, Head(q).resolve[1]), Tail(q))

RECURSIVE destroyPooled(_, _)
\* destroy(), lines 353-356: conn.socket.destroy() for each entry of the pool
destroyPooled(S, p) ==
  IF p = <<>> THEN S
  ELSE destroyPooled([destroySocket(S, Head(p).socket)
                        EXCEPT !.lastActivity[Head(p).socket] = "none"], Tail(p))

destroy_keepsWaiters(S) ==
  [destroyPooled(S, S.pool) EXCEPT !.pool = <<>>]

\* destroy(), without its two clearInterval calls
destroy(S) ==
  [destroyPooled([resolveWaiters(S, S.waitingQueue) EXCEPT !.waitingQueue = <<>>], S.pool)
     EXCEPT !.pool = <<>>]

\* ---- UDPProxy ---------------------------------------------------------------
\* The object and its surroundings as one record U: clients (the Map, key ->
\* {info, targetSocket, lastActivity}), stats, server, cleanupInterval, the
\* upstream sockets it created, the clock, the datagrams sent upstream whose
\* echo has not come back (inFlight), the datagrams sent to clients
\* (delivered), the datagrams whose send() failed (failed), how many datagrams
\* each client sent, and what stop() did.
Peers == 1..NumPeers
UdpSocks == 1..MaxUdpSockets

Addresses == <<"10.0.0.1", "::1">>

\* rinfo of the datagrams of peer k: two ports per address
PeerInfo(k) ==
  [address |-> Addresses[(((k - 1) \div 2) % 2) + 1], port |-> 5000 + ((k - 1) % 2)]

NoInfo == [address |-> "", port |-> 0]

\* `${clientInfo.address}:${clientInfo.port}`
udpKey(clientInfo) == clientInfo.address \o ":" \o ToString(clientInfo.port)

\* targetSocket.close(): the socket stops receiving, what was in flight on it
\* is lost
closeUdpSocket(U, s) ==
  [U EXCEPT !.sockets[s].st = "closed",
            !.inFlight = {d \in @ : d.socket # s}]

FreeUdpSocks(U) == {s \in UdpSocks : U.sockets[s].st = "free"}

\* a handleMessage() that opens a new upstream socket for every datagram
handleMessage_newSocketEachTime(U, message, clientInfo) ==
  LET clientKey == udpKey(clientInfo)
      s == IF FreeUdpSocks(U) # {}
           THEN CHOOSE x \in FreeUdpSocks(U) : \A y \in FreeUdpSocks(U) : x <= y
           ELSE U.clients[clientKey].targetSocket
      session == [info |-> clientInfo, targetSocket |-> s, lastActivity |-> U.now]
  IN  [U EXCEPT !.sockets[s] = [st |-> "open", info |-> clientInfo],
                !.clients = [k \in DOMAIN @ \cup {clientKey} |->
                               IF k = clientKey THEN session ELSE @[k]],
                !.inFlight = @ \cup {[socket |-> s, message |-> message]},
                !.stats.messagesForwarded = @ + 1]

\* handleMessage(), with createClient() for a client that has no session
handleMessage(U, message, clientInfo) ==
  LET clientKey == udpKey(clientInfo)
      fresh == clientKey \notin DOMAIN U.clients
      s == IF fresh
           THEN CHOOSE x \in FreeUdpSocks(U) : \A y \in FreeUdpSocks(U) : x <= y
           ELSE U.clients[clientKey].targetSocket
      U1 == IF fresh
            THEN [U EXCEPT !.sockets[s] = [st |-> "open", info |-> clientInfo],
                           !.clients = @ @@ (clientKey :>
                              [info |-> clientInfo, targetSocket |-> s,
                               lastActivity |-> U.now]),
                           !.stats.clientConnections = @ + 1]
            ELSE U
  IN  [U1 EXCEPT !.clients[clientKey].lastActivity = U.now,
                 !.inFlight = @ \cup {[socket |-> s, message |-> message]},
                 !.stats.messagesForwarded = @ + 1]

\* a 'message' handler that answers the client that created the first session
onTargetMessage_toFirstClient(U, d) ==
  [U EXCEPT !.inFlight = @ \ {d},
            !.delivered = @ \cup {[to |-> U.sockets[1].info, message |-> d.message]}]

\* the 'message' handler createClient() installs on targetSocket s: it sends
\* from the server socket to the clientInfo it closed over
onTargetMessage(U, d) ==
  [U EXCEPT !.inFlight = @ \ {d},
            !.delivered = @ \cup {[to |-> U.sockets[d.socket].info,
                                   message |-> d.message]}]

\* a send callback that gives up the session when send() fails
onSendError_removesClient(U, m, clientInfo) ==
  LET clientKey == udpKey(clientInfo)
  IN  [closeUdpSocket(U, U.clients[clientKey].targetSocket)
         EXCEPT !.clients = [k \in DOMAIN @ \ {clientKey} |-> @[k]],
                !.stats.errors = @ + 1,
                !.failed = @ \cup {m}]

\* the error branch of the two send callbacks, lines 79-85 and 107-114
onSendError(U, m, clientInfo) ==
  [U EXCEPT !.stats.errors = @ + 1, !.failed = @ \cup {m}]

\* handleMessage() whose targetSocket.send() reports an error
handleMessageSendFails(U, message, clientInfo) ==
  LET U1 == handleMessage(U, message, clientInfo)
  IN  onSendError([U1 EXCEPT !.inFlight = U.inFlight,
                             !.stats.messagesForwarded = U.stats.messagesForwarded],
                  message, clientInfo)

\* the 'message' handler of targetSocket whose server.send() reports an error
onTargetMessageSendFails(U, d) ==
  onSendError([U EXCEPT !.inFlight = @ \ {d}], d.message, U.sockets[d.socket].info)

\* a removeClient() that forgets the session and leaves its socket open
removeClient_keepsSocket(U, clientInfo) ==
  [U EXCEPT !.clients = [k \in DOMAIN @ \ {udpKey(clientInfo)} |-> @[k]]]

removeClient(U, clientInfo) ==
  LET clientKey == udpKey(clientInfo)
  IN  IF clientKey \in DOMAIN U.clients
      THEN [closeUdpSocket(U, U.clients[clientKey].targetSocket)
              EXCEPT !.clients = [k \in DOMAIN @ \ {clientKey} |-> @[k]]]
      ELSE U

\* the 'error' handler createClient() installs on targetSocket s
onTargetSocketError(U, s) ==
  removeClient([U EXCEPT !.stats.errors = @ + 1], U.sockets[s].info)

RECURSIVE sweepClients_atTimeout(_, _)
\* a sweep that evicts as soon as clientTimeout is reached
sweepClients_atTimeout(U, keys) ==
  IF keys = {} THEN U
  ELSE LET clientKey == CHOOSE k \in keys : TRUE
           stale == /\ clientKey \in DOMAIN U.clients
                    /\ U.now - U.clients[clientKey].lastActivity >= clientTimeout
       IN  sweepClients_atTimeout(
             IF stale THEN removeClient(U, U.clients[clientKey].info) ELSE U,
             keys \ {clientKey})

RECURSIVE sweepClients(_, _)
\* the loop of cleanupStaleClients() over the entries of the Map
sweepClients(U, keys) ==
  IF keys = {} THEN U
  ELSE LET clientKey == CHOOSE k \in keys : TRUE
           stale == /\ clientKey \in DOMAIN U.clients
                    /\ U.now - U.clients[clientKey].lastActivity > clientTimeout
       IN  sweepClients(IF stale THEN removeClient(U, U.clients[clientKey].info) ELSE U,
                        keys \ {clientKey})

cleanupStaleClients(U) == sweepClients(U, DOMAIN U.clients)

\* a stop() that leaves the upstream sockets of the sessions open
closeAll_nothing(U, keys) == U

RECURSIVE closeAll(_, _)
\* the loop of stop() over this.clients.values()
closeAll(U, keys) ==
  IF keys = {} THEN U
  ELSE LET clientKey == CHOOSE k \in keys : TRUE
       IN  closeAll(closeUdpSocket(U, U.clients[clientKey].targetSocket),
                    keys \ {clientKey})

\* stop(); dgram's close() on a socket that is already closed throws
\* ERR_SOCKET_DGRAM_NOT_RUNNING
stop(U) ==
  LET U1 == IF U.cleanupInterval # "unset"
            THEN [U EXCEPT !.cleanupInterval = "cleared"] ELSE U
      U2 == [closeAll(U1, DOMAIN U1.clients) EXCEPT !.clients = [k \in {} |-> NoInfo]]
  IN  CASE U2.server = "bound" -> [U2 EXCEPT !.server = "closed"]
        [] U2.server = "closed" -> [U2 EXCEPT !.thrown = TRUE]
        [] OTHER -> U2

\* getStats().activeClients
activeClients(U) == Cardinality(DOMAIN U.clients)

\* new UDPProxy(...) followed by start(): the server socket is bound and the
\* sweep interval is armed
UDPStarted ==
  [clients |-> [k \in {} |-> NoInfo],
   stats |-> [messagesForwarded |-> 0, clientConnections |-> 0, errors |-> 0],
   server |-> "bound",
   cleanupInterval |-> "armed",
   sockets |-> [s \in UdpSocks |-> [st |-> "free", info |-> NoInfo]],
   now |-> 0,
   inFlight |-> {},
   delivered |-> {},
   failed |-> {},
   sentCount |-> [k \in Peers |-> 0],
   stops |-> 0,
   thrown |-> FALSE]

\* ---- the process -------------------------------------------------------------
\* After the start-up code has run: the performance monitor and the API server
\* are started and the rule's TCP listener is listening.
AppStarted ==
  [proc |-> "running", apiServer |-> "listening", monitoring |-> "started",
   tcpServer |-> "listening", exitCode |-> <<>>]

\* the SIGINT / SIGTERM handler up to `await apiServer.stop()`
onSignal(A) ==
  [A EXCEPT !.proc = "stopping",
            !.apiServer = IF A.apiServer = "none" THEN "none" ELSE "closed"]

\* the rest of the handler: monitor.stop() and process.exit(0)
onApiServerStopped(A) ==
  [A EXCEPT !.monitoring = "stopped", !.proc = "exited", !.exitCode = <<0>>]

\* ---- rules: startTCPServer(rule) and startUDPServer(rule) ---------------------
MaxRangeLen == 3
MaxPort == 3
Undefined == -1

\* The values a range key of config.json can hold.  A string is kept as the
\* sequence of its digits; items is empty for the kinds that have none.
Arrays == UNION {[1..n -> 1..MaxPort] : n \in 0..MaxRangeLen}
JsonValues ==
  {[kind |-> k, items |-> <<>>] : k \in {"falsy", "number", "object"}}
    \cup {[kind |-> "string", items |-> <<1, 2>>]}
    \cup {[kind |-> "array", items |-> a] : a \in Arrays}

Rules ==
  [localPortRange : JsonValues, targetPortRange : JsonValues,
   localPort : {0, 1}, targetPort : {0, 1}]

SinglePortRule ==
  [localPortRange |-> [kind |-> "falsy", items |-> <<>>],
   targetPortRange |-> [kind |-> "falsy", items |-> <<>>],
   localPort |-> 1, targetPort |-> 1]

Truthy(v) == v.kind # "falsy"
Iterable(v) == v.kind \in {"array", "string"}
isArray(v) == v.kind = "array"

\* const [a, b] = v, for an iterable v
destructure(v, i) == IF i <= Len(v.items) THEN v.items[i] ELSE Undefined
localStart(r) == destructure(r.localPortRange, 1)
localEnd(r) == destructure(r.localPortRange, 2)
targetStart(r) == destructure(r.targetPortRange, 1)
targetEnd(r) == destructure(r.targetPortRange, 2)

\* a > b and a - b !== c - d, where undefined compares false and subtracts to NaN
gt(a, b) == a # Undefined /\ b # Undefined /\ a > b
differ(a, b, c, d) ==
  IF Undefined \in {a, b, c, d} THEN TRUE ELSE (a - b) # (c - d)

\* the `Basic validation` condition
invalidRange(r) ==
  \/ ~isArray(r.localPortRange)
  \/ Len(r.localPortRange.items) # 2
  \/ ~isArray(r.targetPortRange)
  \/ Len(r.targetPortRange.items) # 2
  \/ gt(localStart(r), localEnd(r))
  \/ gt(targetStart(r), targetEnd(r))
  \/ differ(localEnd(r), localStart(r), targetEnd(r), targetStart(r))

\* list: the returned servers, each named by its local port; targets: the
\* target port each of them forwards to, in the same order; pools: the target
\* ports a DynamicConnectionPool was made for; tables: the local ports a
\* UDPProxy (with its clients Map) was made for
\* `a || b` on numbers, 0 standing for an option that is not given
orDefault(a, b) == IF a = 0 THEN b ELSE a

\* The fields the DynamicConnectionPool constructor derives from its options;
\* thresholds in percent.
poolConfig(options) ==
  [minPoolSize |-> orDefault(options.minPoolSize, 5),
   maxPoolSize |-> orDefault(options.maxPoolSize, 50),
   initialPoolSize |-> orDefault(options.initialPoolSize, 10),
   scaleUpThreshold |-> orDefault(options.scaleUpThreshold, 80),
   scaleDownThreshold |-> orDefault(options.scaleDownThreshold, 30),
   scaleUpStep |-> orDefault(options.scaleUpStep, 3),
   scaleDownStep |-> orDefault(options.scaleDownStep, 1)]

NoOptions ==
  [minPoolSize |-> 0, maxPoolSize |-> 0, initialPoolSize |-> 0, scaleUpThreshold |-> 0,
   scaleDownThreshold |-> 0, scaleUpStep |-> 0, scaleDownStep |-> 0]
\* the options the range branch passes
RangeOptions ==
  [NoOptions EXCEPT !.minPoolSize = 3, !.maxPoolSize = 30, !.initialPoolSize = 8,
                    !.scaleUpThreshold = 75, !.scaleDownThreshold = 25]
\* no pool was made
NoConfig == NoOptions

NoServers ==
  [outcome |-> "pending", list |-> <<>>, targets |-> <<>>, pools |-> {}, tables |-> {},
   poolConfig |-> NoConfig]
Returned(list, pools, tables) ==
  [outcome |-> "returned", list |-> list, targets |-> <<>>, pools |-> pools,
   tables |-> tables, poolConfig |-> NoConfig]
\* destructuring a value that is not iterable raises a TypeError
Threw ==
  [outcome |-> "threw", list |-> <<>>, targets |-> <<>>, pools |-> {}, tables |-> {},
   poolConfig |-> NoConfig]

\* a loop that stops one short: `i < localEnd - localStart`
rangePorts_exclusive(first, n) == [i \in 1..n |-> first + i - 1]

\* the ports `first + i` of the loop `for (i = 0; i <= n; i++)`
rangePorts(first, n) == [i \in 1..(n + 1) |-> first + i - 1]
Range(seq) == {seq[i] : i \in DOMAIN seq}

startTCPServer(r) ==
  IF Truthy(r.localPortRange) /\ Truthy(r.targetPortRange)
  THEN IF ~Iterable(r.localPortRange) \/ ~Iterable(r.targetPortRange)
       THEN Threw
       ELSE IF invalidRange(r)
            THEN Returned(<<>>, {}, {})
            ELSE LET n == localEnd(r) - localStart(r)
                 IN [Returned(rangePorts(localStart(r), n),
                              Range(rangePorts(targetStart(r), n)), {})
                       EXCEPT !.poolConfig = poolConfig(RangeOptions),
                              !.targets = rangePorts(targetStart(r), n)]
  ELSE IF r.localPort # 0 /\ r.targetPort # 0
       THEN [Returned(<<r.localPort>>, {r.targetPort}, {})
               EXCEPT !.poolConfig = poolConfig(NoOptions),
                      !.targets = <<r.targetPort>>]
       ELSE Returned(<<>>, {}, {})

startUDPServer(r) ==
  IF Truthy(r.localPortRange) /\ Truthy(r.targetPortRange)
  THEN IF ~Iterable(r.localPortRange) \/ ~Iterable(r.targetPortRange)
       THEN Threw
       ELSE IF invalidRange(r)
            THEN Returned(<<>>, {}, {})
            ELSE LET n == localEnd(r) - localStart(r)
                 IN [Returned(rangePorts(localStart(r), n), {},
                              Range(rangePorts(localStart(r), n)))
                       EXCEPT !.targets = rangePorts(targetStart(r), n)]
  ELSE IF r.localPort # 0 /\ r.targetPort # 0
       THEN [Returned(<<r.localPort>>, {}, {r.localPort})
               EXCEPT !.targets = <<r.targetPort>>]
       ELSE Returned(<<>>, {}, {})

\* an exception out of the forEach callback is uncaught: the process dies
afterStart(A, result) ==
  IF result.outcome = "threw"
  THEN [A EXCEPT !.proc = "crashed", !.exitCode = <<1>>]
  ELSE A

\* ---- start-up: config.json and the loop over config.forward ------------------
MaxSendErrors == 2
MaxRules == 2

GoodRangeRule ==
  [localPortRange |-> [kind |-> "array", items |-> <<1, 2>>],
   targetPortRange |-> [kind |-> "array", items |-> <<2, 3>>],
   localPort |-> 0, targetPort |-> 0]
ShortRangeRule ==
  [GoodRangeRule EXCEPT !.localPortRange = [kind |-> "array", items |-> <<1>>]]
NumberRangeRule ==
  [GoodRangeRule EXCEPT !.localPortRange = [kind |-> "number", items |-> <<>>]]
NoPortsRule == [SinglePortRule EXCEPT !.localPort = 0, !.targetPort = 0]
RuleShapes ==
  {SinglePortRule, GoodRangeRule, ShortRangeRule, NumberRangeRule, NoPortsRule}

\* The elements config.forward can hold: null, a scalar, or an object with
\* status, type and the port keys.
Entries ==
  {[shape |-> s, status |-> "inactive", type |-> "tcp", rule |-> NoPortsRule] :
      s \in {"null", "scalar"}}
    \cup [shape : {"object"}, status : {"active", "inactive"},
          type : {"tcp", "udp", "ftp"}, rule : RuleShapes]
Forwards == UNION {[1..n -> Entries] : n \in 0..MaxRules}

\* What config.json can be: missing, not JSON, JSON null, a JSON scalar, an
\* object without `forward`, an object whose `forward` is not an array, or an
\* object with a `forward` array.
BadFileKinds == {"missing", "garbage", "null", "scalar", "noForward", "forwardNotArray"}
ConfigFiles ==
  {[kind |-> k, forward |-> <<>>, apiEnabled |-> TRUE] : k \in BadFileKinds}
    \cup [kind : {"ok"}, forward : Forwards, apiEnabled : BOOLEAN]

\* the process before it has read config.json
AppLoading ==
  [proc |-> "loading", apiServer |-> "none", monitoring |-> "none",
   tcpServer |-> "none", exitCode |-> <<>>]

\* Reading and parsing the file, then monitor.start() and the API server.
\* Each of: no file, JSON.parse throwing, `!config`, and
\* `!Array.isArray(config.forward)` ends in process.exit(1).
loadConfig_exitsZero(A, file) ==
  IF \/ file.kind = "missing"
     \/ file.kind = "garbage"
     \/ file.kind = "null"
     \/ file.kind \in {"scalar", "noForward", "forwardNotArray"}
  THEN [A EXCEPT !.proc = "exited", !.exitCode = <<0>>]
  ELSE [A EXCEPT !.proc = "starting", !.monitoring = "started",
                 !.apiServer = IF file.apiEnabled THEN "listening" ELSE "none"]

loadConfig(A, file) ==
  IF \/ file.kind = "missing"
     \/ file.kind = "garbage"
     \/ file.kind = "null"
     \/ file.kind \in {"scalar", "noForward", "forwardNotArray"}
  THEN [A EXCEPT !.proc = "exited", !.exitCode = <<1>>]
  ELSE [A EXCEPT !.proc = "starting", !.monitoring = "started",
                 !.apiServer = IF file.apiEnabled THEN "listening" ELSE "none"]

\* one call of the forEach callback; reading `.status` of null raises a TypeError
startEntry(e) ==
  IF e.shape = "null"
  THEN Threw
  ELSE IF e.shape = "object" /\ e.status = "active"
       THEN IF e.type = "tcp"
            THEN startTCPServer(e.rule)
            ELSE IF e.type = "udp"
                 THEN startUDPServer(e.rule)
                 ELSE Returned(<<>>, {}, {})
       ELSE Returned(<<>>, {}, {})

\* the process after that call
afterEntry(A, result) ==
  IF result.outcome = "threw"
  THEN afterStart(A, result)
  ELSE [A EXCEPT !.tcpServer = IF result.pools # {} THEN "listening" ELSE @]

NotBooted(file) == [file |-> file, next |-> 1, results |-> <<>>]

\* the loop's record once the process of the other specifications is up: one
\* TCP rule and one UDP rule, both single-port
Booted ==
  [file |-> [kind |-> "ok",
             forward |-> <<[shape |-> "object", status |-> "active", type |-> "tcp",
                            rule |-> SinglePortRule],
                           [shape |-> "object", status |-> "active", type |-> "udp",
                            rule |-> SinglePortRule]>>,
             apiEnabled |-> TRUE],
   next |-> 3,
   results |-> <<startTCPServer(SinglePortRule), startUDPServer(SinglePortRule)>>]

\* no UDPProxy exists yet
UDPUnstarted == [UDPStarted EXCEPT !.server = "unset", !.cleanupInterval = "unset"]

\* ---- the state after `new DynamicConnectionPool(...)` ----------------------
\* The constructor calls prewarm(), which runs up to its first await: the
\* initialPoolSize dials are in flight.
\* the fields as the constructor sets them, prewarm() having set its flag
NewPool ==
  [pool |-> <<>>,
   waitingQueue |-> <<>>,
   stats |-> [totalConnections |-> 0, activeConnections |-> 0, errors |-> 0,
              poolScales |-> 0, waitingRequests |-> 0],
   lastActivity |-> [s \in Socks |-> "none"],
   prewarmingInProgress |-> TRUE,
   scalingLock |-> FALSE,
   lastScaleAge |-> scaleInterval,
   timers |-> {},
   sock |-> [s \in Socks |-> "free"],
   dialer |-> [s \in Socks |-> NoDialer],
   client |-> [c \in Clients |->
                 [st |-> "new", local |-> "none", target |-> NoSock, gen |-> 0]],
   releases |-> [c \in Clients |-> 0],
   errored |-> {},
   sent |-> [c \in Clients |-> <<>>],
   received |-> [c \in Clients |-> <<>>],
   echoing |-> [s \in Socks |-> <<>>]]

InitState == dialMany(NewPool, [by |-> "prewarm", client |-> 0], initialPoolSize)

\* no pool object exists yet
NoPool == [NewPool EXCEPT !.prewarmingInProgress = FALSE]

Holds(S) ==
  /\ pool = S.pool
  /\ waitingQueue = S.waitingQueue
  /\ stats = S.stats
  /\ lastActivity = S.lastActivity
  /\ prewarmingInProgress = S.prewarmingInProgress
  /\ scalingLock = S.scalingLock
  /\ lastScaleAge = S.lastScaleAge
  /\ timers = S.timers
  /\ sock = S.sock
  /\ dialer = S.dialer
  /\ client = S.client
  /\ releases = S.releases
  /\ errored = S.errored
  /\ sent = S.sent
  /\ received = S.received
  /\ echoing = S.echoing

InitProxy ==
  /\ Holds(InitState)
  /\ disturbances = 0
  /\ udp = UDPStarted
  /\ app = AppStarted
  /\ boot = Booted
  /\ intervals = "armed"

\* the process with its single-port rule started
Init ==
  /\ InitProxy
  /\ rule = SinglePortRule
  /\ servers = startTCPServer(SinglePortRule)

\* the process has just been launched, with any config.json
InitBoot ==
  /\ Holds(NoPool)
  /\ disturbances = 0
  /\ udp = UDPUnstarted
  /\ app = AppLoading
  /\ intervals = "unset"
  /\ boot \in {NotBooted(f) : f \in ConfigFiles}
  /\ rule = SinglePortRule
  /\ servers = NoServers

\* the process about to start one more rule of config.forward, any rule
InitRange ==
  /\ InitProxy
  /\ rule \in Rules
  /\ servers = NoServers

\* ---- actions: one per callback of the event loop ---------------------------
\* the listener accepts client c and its handler calls pool.getConnection()
ClientConnect(c) ==
  /\ UNCHANGED disturbances
  /\ client[c].st = "new"
  /\ \A d \in Clients : d < c => client[d].st # "new"
  /\ CanGetConnection(Cur)
  /\ Commit(getConnection([Cur EXCEPT !.client[c].local = "open"], c))

\* a dial completes: 'connect'
DialConnect(s) ==
  /\ UNCHANGED disturbances
  /\ sock[s] = "dialing"
  /\ Commit(onConnect(Cur, s))

\* a dial fails: 'error' before 'connect'
DialFail(s) ==
  /\ sock[s] = "dialing"
  /\ disturbances < MaxDisturbances
  /\ disturbances' = disturbances + 1
  /\ Commit(onDialError(Cur, s))

\* setImmediate(() => this.getConnection().then(resolve)) of removeConnection
RunRequeue(c) ==
  /\ UNCHANGED disturbances
  /\ client[c].st = "requeue"
  /\ CanGetConnection(Cur)
  /\ Commit(getConnection(Cur, c))

\* setImmediate(() => resolve(socket)) of releaseConnection
RunHandoff(c) ==
  /\ UNCHANGED disturbances
  /\ client[c].st = "handoff"
  /\ Commit(installPipe(Cur, c, client[c].target))

\* the client hangs up: its socket closes
ClientHangup(c) ==
  /\ UNCHANGED disturbances
  /\ client[c].local = "open"
  /\ Commit(onLocalClose(Cur, c))

\* the 'close' event of a client socket that destroy() was called on
LocalClose(c) ==
  /\ UNCHANGED disturbances
  /\ client[c].local = "closing"
  /\ Commit(onLocalClose(Cur, c))

\* the client socket fails while piped
LocalError(c) ==
  /\ client[c].st = "piped"
  /\ disturbances < MaxDisturbances
  /\ disturbances' = disturbances + 1
  /\ client[c].local = "open"
  /\ Commit(onLocalError(Cur, c))

\* an established upstream socket fails
TargetError(s) ==
  /\ sock[s] \in {"open", "ended"}
  /\ disturbances < MaxDisturbances
  /\ disturbances' = disturbances + 1
  /\ Commit(onTargetError(Cur, s))

\* bytes in flight on a connection are gone once the connection has closed
connectionGone(S, s) ==
  [S EXCEPT !.echoing[s] = <<>>]

\* the upstream hangs up on an established socket: the socket closes
UpstreamHangup(s) ==
  /\ UNCHANGED disturbances
  /\ sock[s] = "open"
  /\ Commit(connectionGone(onTargetClose(Cur, s), s))

\* the 'close' event of an upstream socket after end() (the upstream answered
\* the FIN) or destroy()
TargetClose(s) ==
  /\ UNCHANGED disturbances
  /\ sock[s] \in {"ended", "destroyed"}
  /\ Commit(connectionGone(onTargetClose(Cur, s), s))

\* the 5 s timer of a queued getConnection() fires
WaitTimeout(t) ==
  /\ UNCHANGED disturbances
  /\ t \in timers
  /\ t.age >= waitTimeout
  /\ Commit(onWaitTimeout(Cur, t))

\* setImmediate callbacks run in the current turn of the event loop
ImmediatePending == \E c \in Clients : client[c].st \in {"requeue", "handoff"}

\* time passes; a timer that is due fires before the clock moves on, and so
\* does a pending setImmediate callback
Tick ==
  /\ \A t \in timers : t.age < waitTimeout
  /\ ~ImmediatePending
  /\ timers' = {[t EXCEPT !.age = @ + TickMs] : t \in timers}
  /\ waitingQueue' = [i \in 1..Len(waitingQueue) |->
                        [waitingQueue[i] EXCEPT !.age = @ + TickMs]]
  /\ lastScaleAge' = Min(lastScaleAge + TickMs, scaleInterval)
  /\ <<timers', waitingQueue', lastScaleAge'>> # <<timers, waitingQueue, lastScaleAge>>
  /\ UNCHANGED <<pool, stats, lastActivity, prewarmingInProgress, scalingLock, sock,
                 dialer, client, releases, errored, disturbances,
                 sent, received, echoing, otherVars>>

\* a quiet period longer than idleTimeout passes: no timer is pending, and no
\* socket of the pool was touched meanwhile
IdleTimeoutElapses ==
  /\ timers = {}
  /\ ~ImmediatePending
  /\ \A s \in Socks : sock[s] # "dialing"
  /\ \E i \in 1..Len(pool) : lastActivity[pool[i].socket] = "recent"
  /\ lastActivity' = [s \in Socks |->
                        IF lastActivity[s] = "recent" THEN "expired" ELSE lastActivity[s]]
  /\ lastScaleAge' = scaleInterval
  /\ UNCHANGED <<pool, waitingQueue, stats, prewarmingInProgress, scalingLock,
                 timers, sock, dialer, client, releases, errored, disturbances,
                 sent, received, echoing, otherVars>>

\* setInterval(() => this.monitor(), 10000)
MonitorTick ==
  /\ intervals = "armed"
  /\ disturbances < MaxDisturbances
  /\ disturbances' = disturbances + 1
  /\ (RatioAbove(Cur, scaleUpThreshold) /\ Len(pool) < maxPoolSize)
        => Cardinality(FreeSocks(Cur)) >= Min(scaleUpStep, maxPoolSize - Len(pool))
  /\ monitor(Cur) # Cur
  /\ Commit(monitor(Cur))

\* setInterval(() => this.cleanup(), 30000)
CleanupTick ==
  /\ intervals = "armed"
  /\ disturbances < MaxDisturbances
  /\ disturbances' = disturbances + 1
  /\ cleanup(Cur) # Cur
  /\ Commit(cleanup(Cur))

\* the monitor and cleanup intervals as they fire in a long-running process
MonitorRuns ==
  /\ intervals = "armed"
  /\ UNCHANGED disturbances
  /\ (RatioAbove(Cur, scaleUpThreshold) /\ Len(pool) < maxPoolSize)
        => Cardinality(FreeSocks(Cur)) >= Min(scaleUpStep, maxPoolSize - Len(pool))
  /\ monitor(Cur) # Cur
  /\ Commit(monitor(Cur))

CleanupRuns ==
  /\ intervals = "armed"
  /\ UNCHANGED disturbances
  /\ cleanup(Cur) # Cur
  /\ Commit(cleanup(Cur))

\* ---- actions of the UDP forwarder, with an echo server as the upstream -----
CommitUdp(U) ==
  /\ udp' = U
  /\ UNCHANGED <<tcpVars, app, rule, servers, boot, intervals>>

\* peer k sends its next datagram to the proxy port: 'message' on the server
UdpClientSend(k) ==
  /\ udp.server = "bound"
  /\ udp.sentCount[k] < MaxDatagrams
  /\ udpKey(PeerInfo(k)) \notin DOMAIN udp.clients => FreeUdpSocks(udp) # {}
  /\ CommitUdp(handleMessage([udp EXCEPT !.sentCount[k] = @ + 1],
                             [from |-> k, n |-> udp.sentCount[k] + 1], PeerInfo(k)))

\* the echo of datagram d arrives: 'message' on an upstream socket
UdpTargetMessage(d) ==
  /\ d \in udp.inFlight
  /\ udp.sockets[d.socket].st = "open"
  /\ CommitUdp(onTargetMessage(udp, d))

\* 'error' on an upstream socket
UdpTargetError(s) ==
  /\ udp.sockets[s].st = "open"
  /\ CommitUdp(onTargetSocketError(udp, s))

\* a minute passes and the sweep interval fires
UdpSweep ==
  /\ udp.cleanupInterval = "armed"
  /\ udp.now < MaxSweeps * sweepInterval
  /\ CommitUdp(cleanupStaleClients([udp EXCEPT !.now = @ + sweepInterval]))

\* somebody calls stop()
UdpStop ==
  /\ udp.stops < MaxStops
  /\ CommitUdp(stop([udp EXCEPT !.stops = @ + 1]))

\* targetSocket.send() of handleMessage fails for peer k's next datagram
UdpSendFails(k) ==
  /\ udp.server = "bound"
  /\ udp.sentCount[k] < MaxDatagrams
  /\ Cardinality(udp.failed) < MaxSendErrors
  /\ udpKey(PeerInfo(k)) \notin DOMAIN udp.clients => FreeUdpSocks(udp) # {}
  /\ CommitUdp(handleMessageSendFails([udp EXCEPT !.sentCount[k] = @ + 1],
                                      [from |-> k, n |-> udp.sentCount[k] + 1], PeerInfo(k)))

\* the echo of datagram d arrives and server.send() to the client fails
UdpReplyFails(d) ==
  /\ d \in udp.inFlight
  /\ udp.sockets[d.socket].st = "open"
  /\ udp.server = "bound"
  /\ Cardinality(udp.failed) < MaxSendErrors
  /\ CommitUdp(onTargetMessageSendFails(udp, d))

NextUdp ==
  \/ \E k \in Peers : UdpClientSend(k)
  \/ \E d \in udp.inFlight : UdpTargetMessage(d)
  \/ \E s \in UdpSocks : UdpTargetError(s)
  \/ UdpSweep
  \/ UdpStop

SpecUdp == Init /\ [][NextUdp]_vars

\* the UDP forwarder on a network where send() can fail
NextUdpLossy ==
  \/ NextUdp
  \/ \E k \in Peers : UdpSendFails(k)
  \/ \E d \in udp.inFlight : UdpReplyFails(d)

SpecUdpLossy == Init /\ [][NextUdpLossy]_vars

\* ---- the process and its termination signals --------------------------------
\* SIGINT or SIGTERM arrives
Signal ==
  /\ app.proc = "running"
  /\ app' = onSignal(app)
  /\ UNCHANGED <<tcpVars, udp, rule, servers, boot, intervals>>

\* apiServer.stop() has resolved
ApiServerStopped ==
  /\ app.proc = "stopping"
  /\ app' = onApiServerStopped(app)
  /\ UNCHANGED <<tcpVars, udp, rule, servers, boot, intervals>>

\* a process with one TCP rule and one UDP rule, serving clients until a
\* termination signal makes it exit
NextApp ==
  \/ /\ app.proc # "exited"
     /\ \/ \E c \in Clients : ClientConnect(c)
        \/ \E s \in Socks : DialConnect(s)
        \/ \E c \in Clients : ClientHangup(c)
        \/ \E s \in Socks : TargetClose(s)
        \/ \E k \in Peers : UdpClientSend(k)
  \/ Signal
  \/ ApiServerStopped

SpecApp == Init /\ [][NextApp]_vars

\* ---- the start-up loop over config.forward --------------------------------
\* the rule has type "tcp"
StartTCP ==
  /\ servers.outcome = "pending"
  /\ servers' = startTCPServer(rule)
  /\ app' = afterStart(app, servers')
  /\ UNCHANGED <<tcpVars, udp, rule, boot, intervals>>

\* the rule has type "udp"
StartUDP ==
  /\ servers.outcome = "pending"
  /\ servers' = startUDPServer(rule)
  /\ app' = afterStart(app, servers')
  /\ UNCHANGED <<tcpVars, udp, rule, boot, intervals>>

NextRange == StartTCP \/ StartUDP

SpecRange == InitRange /\ [][NextRange]_vars

\* ---- a pool that is destroyed while in use -----------------------------------
\* pool.destroy() is called
Destroy ==
  /\ intervals = "armed"
  /\ intervals' = "cleared"
  /\ Assign(destroy(Cur))
  /\ UNCHANGED <<disturbances, udp, app, rule, servers, boot>>

\* ---- start-up -------------------------------------------------------------------
LoadConfig ==
  /\ app.proc = "loading"
  /\ app' = loadConfig(app, boot.file)
  /\ UNCHANGED <<tcpVars, udp, rule, servers, boot, intervals>>

nextEntry == boot.file.forward[boot.next]

\* One turn of the forEach.  The first pool and the first UDPProxy that a rule
\* creates are the ones the pool and UDP variables describe.
StartRule ==
  /\ app.proc = "starting"
  /\ boot.next <= Len(boot.file.forward)
  /\ app' = afterEntry(app, startEntry(nextEntry))
  /\ boot' = IF startEntry(nextEntry).outcome = "threw"
             THEN boot
             ELSE [boot EXCEPT !.next = @ + 1,
                               !.results = Append(@, startEntry(nextEntry))]
  /\ Assign(IF startEntry(nextEntry).pools # {} /\ Cur = NoPool THEN InitState ELSE Cur)
  /\ udp' = IF startEntry(nextEntry).tables # {} /\ udp = UDPUnstarted
            THEN UDPStarted
            ELSE udp
  /\ intervals' = IF startEntry(nextEntry).pools # {} THEN "armed" ELSE intervals
  /\ UNCHANGED <<disturbances, rule, servers>>

\* the forEach is over and the signal handlers are installed
LoopDone ==
  /\ app.proc = "starting"
  /\ boot.next > Len(boot.file.forward)
  /\ app' = [app EXCEPT !.proc = "running"]
  /\ UNCHANGED <<tcpVars, udp, rule, servers, boot, intervals>>

NextBoot == LoadConfig \/ StartRule \/ LoopDone \/ Signal \/ ApiServerStopped

SpecBoot == InitBoot /\ [][NextBoot]_vars

\* ---- the data path: pipe(), with an echo server as the upstream -------------
\* localSocket.pipe(targetSocket) and targetSocket.pipe(localSocket) of client c
\* are in place: installed and not undone by cleanup() or by a closing socket
PipeActive(S, c) ==
  /\ S.client[c].st = "piped"
  /\ S.client[c].local = "open"
  /\ S.sock[S.client[c].target] \in {"open", "ended"}

\* the k-th byte client c writes
Byte(c, k) == 10 * c + k

\* a byte of client c reaches the proxy and pipe() writes it to the upstream
\* socket; a write after end() makes the socket emit 'error'
pipeToTarget(S, c) ==
  LET t == S.client[c].target
      b == Byte(c, Len(S.sent[c]) + 1)
      S1 == [S EXCEPT !.sent[c] = Append(@, b)]
  IN  IF S.sock[t] = "open"
      THEN [S1 EXCEPT !.echoing[t] = Append(@, b)]
      ELSE onTargetError(S1, t)

\* a byte the upstream sent arrives on socket s: pipe() writes it to the client
\* socket of every pipe installed on s
pipeToLocal(S, s) ==
  LET b == Head(S.echoing[s])
  IN  [S EXCEPT !.echoing[s] = Tail(@),
           !.received = [c \in Clients |->
                           IF PipeActive(S, c) /\ S.client[c].target = s
                           THEN Append(S.received[c], b)
                           ELSE S.received[c]]]

ClientWrite(c) ==
  /\ UNCHANGED disturbances
  /\ PipeActive(Cur, c)
  /\ Len(sent[c]) < MaxBytes
  /\ Commit(pipeToTarget(Cur, c))

\* the echo server has written a byte back and 'data' fires on an upstream
\* socket that some pipe reads from (a socket nobody reads from keeps the bytes
\* buffered)
TargetData(s) ==
  /\ UNCHANGED disturbances
  /\ echoing[s] # <<>>
  /\ \E c \in Clients : PipeActive(Cur, c) /\ client[c].target = s
  /\ Commit(pipeToLocal(Cur, s))

\* connections come and go and no socket fails
Plain ==
  \/ \E c \in Clients : ClientConnect(c)
  \/ \E s \in Socks : DialConnect(s)
  \/ \E c \in Clients : RunRequeue(c)
  \/ \E c \in Clients : RunHandoff(c)
  \/ \E c \in Clients : ClientHangup(c)
  \/ \E c \in Clients : LocalClose(c)
  \/ \E s \in Socks : UpstreamHangup(s)
  \/ \E s \in Socks : TargetClose(s)
  \/ \E t \in timers : WaitTimeout(t)
  \/ Tick

Next ==
  \/ Plain
  \/ \E s \in Socks : DialFail(s)
  \/ \E c \in Clients : LocalError(c)
  \/ \E s \in Socks : TargetError(s)
  \/ IdleTimeoutElapses
  \/ MonitorTick
  \/ CleanupTick

Spec == Init /\ [][Next]_vars

\* Every callback the event loop has pending runs: a dial settles, a socket
\* that was ended or destroyed emits 'close', setImmediate callbacks and due
\* timers fire, the clock advances.  Clients and the upstream are free to keep
\* their connections open for ever.
Fairness ==
  /\ \A s \in Socks : WF_vars(DialConnect(s)) /\ WF_vars(TargetClose(s))
  /\ \A c \in Clients : /\ WF_vars(RunRequeue(c))
                        /\ WF_vars(RunHandoff(c))
                        /\ WF_vars(LocalClose(c))
  /\ WF_vars(\E t \in timers : WaitTimeout(t))
  /\ WF_vars(Tick)

SpecLive == Init /\ [][Plain]_vars /\ Fairness

\* A long-running forwarder over a healthy upstream: clients come and go, no
\* socket fails, and the pool's intervals keep firing.  Every pending callback
\* runs; clients are free never to connect and never to hang up.
NextIdle ==
  \/ \E c \in Clients : ClientConnect(c)
  \/ \E s \in Socks : DialConnect(s)
  \/ \E c \in Clients : RunHandoff(c)
  \/ \E c \in Clients : ClientHangup(c)
  \/ \E c \in Clients : LocalClose(c)
  \/ \E s \in Socks : TargetClose(s)
  \/ \E t \in timers : WaitTimeout(t)
  \/ Tick
  \/ IdleTimeoutElapses
  \/ MonitorRuns
  \/ CleanupRuns

SpecIdle ==
  /\ Init /\ [][NextIdle]_vars
  /\ \A s \in Socks : WF_vars(DialConnect(s)) /\ WF_vars(TargetClose(s))
  /\ \A c \in Clients : WF_vars(RunHandoff(c)) /\ WF_vars(LocalClose(c))
  /\ WF_vars(\E t \in timers : WaitTimeout(t))
  /\ WF_vars(Tick) /\ WF_vars(IdleTimeoutElapses)
  /\ WF_vars(MonitorRuns) /\ WF_vars(CleanupRuns)

\* Sustained load: clients connect and stay connected, the upstream accepts
\* every dial and keeps every socket open, the monitor interval keeps firing.
NextLoad ==
  \/ \E c \in Clients : ClientConnect(c)
  \/ \E s \in Socks : DialConnect(s)
  \/ \E c \in Clients : LocalClose(c)
  \/ \E t \in timers : WaitTimeout(t)
  \/ Tick
  \/ MonitorRuns

SpecLoad ==
  /\ Init /\ [][NextLoad]_vars
  /\ \A s \in Socks : WF_vars(DialConnect(s))
  /\ \A c \in Clients : WF_vars(ClientConnect(c)) /\ WF_vars(LocalClose(c))
  /\ WF_vars(\E t \in timers : WaitTimeout(t))
  /\ WF_vars(Tick) /\ WF_vars(MonitorRuns)

\* the forwarder with an echo server upstream and clients that write; an echo
\* server closes a connection only after the proxy has ended it
NextEcho ==
  \/ \E c \in Clients : ClientConnect(c)
  \/ \E s \in Socks : DialConnect(s)
  \/ \E c \in Clients : RunHandoff(c)
  \/ \E c \in Clients : ClientHangup(c)
  \/ \E c \in Clients : LocalClose(c)
  \/ \E s \in Socks : TargetClose(s)
  \/ \E t \in timers : WaitTimeout(t)
  \/ Tick
  \/ \E c \in Clients : ClientWrite(c)
  \/ \E s \in Socks : TargetData(s)

SpecEcho == Init /\ [][NextEcho]_vars

\* An upstream that refuses a connection attempt: every pending callback runs.
NextRefused ==
  \/ Plain
  \/ \E s \in Socks : DialFail(s)

\* the callbacks that settle a getConnection() call: the end of a dial, the
\* setImmediate callbacks of the pool, and the 5 s timers as the clock advances
SettlesAcquirer ==
  \/ \E s \in Socks : DialConnect(s)
  \/ \E c \in Clients : RunRequeue(c)
  \/ \E c \in Clients : RunHandoff(c)
  \/ \E t \in timers : WaitTimeout(t)
  \/ Tick

\* Clients connect and hang up, and the upstream hangs up or refuses, only
\* finitely often; the event loop keeps running the callbacks it has pending.
SpecRefused == Init /\ [][NextRefused]_vars /\ WF_vars(SettlesAcquirer)

\* A forwarder over a healthy upstream whose pool is destroyed at some moment
\* of its run.
NextDestroy ==
  \/ \E c \in Clients : ClientConnect(c)
  \/ \E s \in Socks : DialConnect(s)
  \/ \E c \in Clients : RunRequeue(c)
  \/ \E c \in Clients : RunHandoff(c)
  \/ \E c \in Clients : ClientHangup(c)
  \/ \E c \in Clients : LocalClose(c)
  \/ \E s \in Socks : TargetClose(s)
  \/ \E t \in timers : WaitTimeout(t)
  \/ Tick
  \/ IdleTimeoutElapses
  \/ MonitorTick
  \/ CleanupTick
  \/ Destroy

SpecDestroy == Init /\ [][NextDestroy]_vars

\* ---- claims ----------------------------------------------------------------
InPool(s) == findIndex(pool, s) # 0

Acquiring(c) == client[c].st \in {"dial", "queue", "requeue", "handoff"}

\* The clients that getConnection() gave socket s and whose lend has not ended:
\* none of their handlers has released s and s is still in the pool.
Holders(s) ==
  {c \in Clients : /\ client[c].st = "piped"
                   /\ client[c].target = s
                   /\ releases[c] = 0
                   /\ InPool(s)}

\* C1: at every moment an upstream socket is held by at most one acquirer: no
\* second getConnection() returns a socket before its holder released it or it
\* left the pool.
C1_OneAcquirerPerSocket == \A s \in Socks : Cardinality(Holders(s)) <= 1

\* C2: in every reachable state the pool holds at most maxPoolSize connections.
C2_PoolWithinMax == Len(pool) <= maxPoolSize

\* C3: in every reachable state activeConnections + idleConnections == poolSize
\* (the getStats() snapshot).
C3_ActivePlusIdleIsTotal ==
  stats.activeConnections + idleConnections(pool) = Len(pool)

\* C4: for the socket lent to a client, releaseConnection takes effect at most
\* once (never from the 'error' handler and again from another handler).
C4_ReleaseAtMostOncePerLend == \A c \in Clients : releases[c] <= 1

IsPrefix(a, b) == Len(a) <= Len(b) /\ \A i \in 1..Len(a) : a[i] = b[i]

\* C5: with an echo upstream, the bytes delivered back to a client are the bytes
\* that client wrote, in the same order, with nothing inserted or duplicated
\* (at every moment: a prefix of what it wrote)
C5_EchoIsWhatWasWritten == \A c \in Clients : IsPrefix(received[c], sent[c])

NoClientConnected == \A c \in Clients : client[c].local \in {"none", "closed"}

\* C11: under sustained idle (from some point on no client is connected) the
\* pool size eventually becomes exactly minPoolSize and stays there, and no step
\* in which the pool itself destroys an entry (scale-down, idle cleanup) leaves
\* fewer than minPoolSize entries
C11_IdleShrinksToMin ==
  /\ <>[]NoClientConnected => <>[](Len(pool) = minPoolSize)
  /\ [][(\E s \in Socks : InPool(s) /\ ~InPool(s)' /\ sock'[s] = "destroyed")
          => Len(pool') >= minPoolSize]_vars

\* C12: under sustained load the pool size eventually reaches exactly
\* maxPoolSize, and it is never above maxPoolSize
C12_LoadGrowsToMax ==
  /\ <>(Len(pool) = maxPoolSize)
  /\ [](Len(pool) <= maxPoolSize)

\* ---- claims about the UDP forwarder ------------------------------------------
\* the step is a call of stop() other than the first
LaterStop == udp.stops >= 1 /\ udp'.stops = udp.stops + 1

\* C13: a second stop() raises no error and changes no state
C13_SecondStopIsNoOp ==
  [][LaterStop => /\ ~udp'.thrown
                  /\ udp' = [udp EXCEPT !.stops = @ + 1]]_vars

\* C14: once stop() has returned, the session table is empty, every upstream
\* socket of a session is closed, the server socket is closed (no datagram is
\* accepted) and the sweep interval is cancelled
C14_StoppedLeavesNothingOpen ==
  udp.stops >= 1 =>
    /\ DOMAIN udp.clients = {}
    /\ \A s \in UdpSocks : udp.sockets[s].st # "open"
    /\ udp.server = "closed"
    /\ udp.cleanupInterval = "cleared"
    /\ udp.inFlight = {}

\* C14 witness: stop() ran while sessions existed; it alone closed their sockets
C14_Witness ==
  /\ udp.stops = 1
  /\ udp.stats.clientConnections = NumPeers
  /\ udp.stats.errors = 0 /\ udp.now = 0
  /\ \A k \in Peers : \E s \in UdpSocks :
        udp.sockets[s] = [st |-> "closed", info |-> PeerInfo(k)]

\* upstream sockets that are open for peer k
OpenFor(U, k) == {s \in UdpSocks : U.sockets[s] = [st |-> "open", info |-> PeerInfo(k)]}

\* the step is the arrival of a datagram of peer k
Sends(k) == udp'.sentCount[k] = udp.sentCount[k] + 1

\* C15: when the process has exited on SIGINT or SIGTERM, it has stopped its
\* TCP listener, destroyed its connection pool (no upstream socket, idle or
\* lent, is left open or dialing) and closed every UDP session
C15_ShutdownStopsForwarders ==
  app.proc = "exited" =>
    /\ app.tcpServer = "closed"
    /\ pool = <<>>
    /\ \A s \in Socks : sock[s] \notin {"dialing", "open", "ended"}
    /\ DOMAIN udp.clients = {}
    /\ \A s \in UdpSocks : udp.sockets[s].st # "open"
    /\ udp.server # "bound"

\* C20: a rule that gives both range keys, where a range is not a 2-element
\* array, or has start > end, or the two ranges differ in length, is rejected
\* as a whole: the start function returns the empty list, and no listener,
\* pool or session table exists for any of its ports
TwoElementArray(v) == v.kind = "array" /\ Len(v.items) = 2
BadRange(r) ==
  \/ ~TwoElementArray(r.localPortRange)
  \/ ~TwoElementArray(r.targetPortRange)
  \/ r.localPortRange.items[1] > r.localPortRange.items[2]
  \/ r.targetPortRange.items[1] > r.targetPortRange.items[2]
  \/ r.localPortRange.items[2] - r.localPortRange.items[1]
       # r.targetPortRange.items[2] - r.targetPortRange.items[1]
RangeRule(r) == r.localPortRange.kind # "falsy" /\ r.targetPortRange.kind # "falsy"
Started == servers.outcome # "pending"
C20_BadRangeRejectedWhole ==
  (Started /\ RangeRule(rule) /\ BadRange(rule)) =>
    /\ servers.outcome = "returned"
    /\ servers.list = <<>>
    /\ servers.pools = {}
    /\ servers.tables = {}

\* C21: an invalid entry of config.forward does not abort start-up: no exception
\* leaves the rule loop, and once the loop is over every valid active rule of
\* the list, before or after the invalid one, has been started
ValidActive(e) ==
  /\ e.shape = "object"
  /\ e.status = "active"
  /\ e.type \in {"tcp", "udp"}
  /\ e.rule \in {SinglePortRule, GoodRangeRule}
LoopOver == boot.file.kind = "ok" /\ app.proc \notin {"loading", "starting"}
C21_InvalidRuleIsSkipped ==
  /\ app.proc # "crashed"
  /\ LoopOver =>
       \A i \in 1..Len(boot.file.forward) :
          ValidActive(boot.file.forward[i]) =>
            i <= Len(boot.results) /\ boot.results[i].list # <<>>

\* C22: a TCP range rule of length 1, [p, p] to [q, q], gives what the
\* single-port rule p to q gives: the same listener, the same pool and the same
\* pool parameters
LengthOneRange(r) ==
  /\ TwoElementArray(r.localPortRange) /\ TwoElementArray(r.targetPortRange)
  /\ r.localPortRange.items[1] = r.localPortRange.items[2]
  /\ r.targetPortRange.items[1] = r.targetPortRange.items[2]
SingleOf(r) ==
  [SinglePortRule EXCEPT !.localPort = r.localPortRange.items[1],
                         !.targetPort = r.targetPortRange.items[1]]
C22_LengthOneRangeIsSinglePort ==
  (Started /\ LengthOneRange(rule) /\ servers.pools # {}) =>
    servers = startTCPServer(SingleOf(rule))

\* C23: with config.json missing, not valid JSON or without an array `forward`,
\* the process exits with a non-zero code and has created no forwarder, pool or
\* listener; a shutdown that a signal started exits with code 0
BadConfig(file) == file.kind \in BadFileKinds
NothingCreated ==
  /\ boot.results = <<>>
  /\ Cur = NoPool
  /\ udp = UDPUnstarted
  /\ app.tcpServer = "none"
  /\ app.apiServer = "none"
C23_ExitCodes ==
  /\ (BadConfig(boot.file) /\ app.proc # "loading") =>
       /\ app.proc = "exited"
       /\ Len(app.exitCode) = 1 /\ app.exitCode[1] # 0
       /\ NothingCreated
  /\ (app.proc = "exited" /\ app.monitoring = "stopped") => app.exitCode = <<0>>
C23_Witness ==
  /\ boot.file.kind = "forwardNotArray"
  /\ app.proc = "exited"

\* C24: when the socket of a piped client closes while its upstream socket is
\* open and no other client is piped on it, the upstream socket is still open
\* afterwards (not ended, not destroyed) and still in the pool
ClientCloses(c) ==
  /\ client[c].st = "piped"
  /\ client[c].local # "closed"
  /\ client'[c].local = "closed"
C24_ClientCloseKeepsUpstream ==
  [][\A c \in Clients :
       (/\ ClientCloses(c)
        /\ sock[client[c].target] = "open"
        /\ PipedOn(Cur, client[c].target) = {c})
          => /\ sock'[client[c].target] = "open"
             /\ InPool(client[c].target)']_vars

\* C29: when getConnection() answers from several idle connections, the one it
\* returns has the fewest errors among them and, among those with as few
\* errors, is the most recently created
PicksIdle(c) == client[c].st \in {"new", "requeue"} /\ client'[c].st = "piped"
IdleEntries == {i \in 1..Len(pool) : pool[i].idle}
C29_PicksFewestErrorsThenNewest ==
  [][\A c \in Clients :
       PicksIdle(c) =>
         \A i \in IdleEntries : \A j \in IdleEntries :
            pool[i].socket = client'[c].target =>
              /\ pool[i].errors <= pool[j].errors
              /\ pool[i].errors = pool[j].errors => pool[i].created >= pool[j].created]_vars

\* C30: a scale-down never takes the pool below minPoolSize: a step that scales
\* down starts with more than minPoolSize connections, removes at most
\* min(scaleDownStep, pool.length - minPoolSize) of them and leaves at least
\* minPoolSize
ScalesDown ==
  /\ ~scalingLock
  /\ lastScaleAge >= scaleInterval
  /\ lastScaleAge' = 0
  /\ Len(pool') < Len(pool)
C30_ScaleDownKeepsMin ==
  [][ScalesDown =>
       /\ Len(pool) > minPoolSize
       /\ Len(pool) - Len(pool') <= Min(scaleDownStep, Len(pool) - minPoolSize)
       /\ Len(pool') >= minPoolSize]_vars
\* C30 witness: the last scaling operation was a scale-down (no scale-up has
\* completed) and it brought the pool to minPoolSize
C30_Witness ==
  /\ lastScaleAge = 0 /\ ~scalingLock /\ stats.poolScales = 0
  /\ Len(pool) = minPoolSize
  /\ \E s \in Socks : sock[s] = "destroyed"

\* C27: scaleDown and the idle cleanup only destroy connections that are not lent
\* out: a socket that a step of either of them destroys and takes out of the
\* pool is held by no client
LentTo(s) == {c \in Clients : client[c].st = "piped" /\ client[c].target = s /\ releases[c] = 0}
Reaped(s) ==
  /\ InPool(s) /\ ~InPool(s)'
  /\ sock[s] = "open" /\ sock'[s] = "destroyed"
  /\ client' = client
C27_OnlyIdleSocketsReaped ==
  [][\A s \in Socks : Reaped(s) => LentTo(s) = {}]_vars

\* C25: a release that finds waiters hands the socket to the waiter at the head
\* of the queue and leaves its entry non-idle; until that waiter wakes up no
\* other acquirer obtains the socket; waiters are served in queue order
HandedOff(c) == client[c].st = "queue" /\ client'[c].st = "handoff"
Obtains(c, s) == client'[c].target = s /\ client[c].target # s
C25_ReleaseRelendsToHead ==
  [][\A c \in Clients :
       /\ HandedOff(c) =>
            /\ Head(waitingQueue).resolve[1] = c
            /\ waitingQueue' = Tail(waitingQueue)
            /\ \E i \in 1..Len(pool') :
                  pool'[i].socket = client'[c].target /\ ~pool'[i].idle
       /\ client[c].st = "handoff" =>
            \A d \in Clients \ {c} : ~Obtains(d, client[c].target)]_vars

\* C26: when a dial completes while acquirers are queued, the waiter at the head
\* of the queue is woken with the new socket
Connects(s) == sock[s] = "dialing" /\ sock'[s] = "open"
C26_NewConnectionWakesHeadWaiter ==
  [][\A s \in Socks :
       (Connects(s) /\ waitingQueue # <<>>) =>
          /\ client'[Head(waitingQueue).resolve[1]].st = "handoff"
          /\ client'[Head(waitingQueue).resolve[1]].target = s]_vars

\* C28: when an upstream socket that clients are piped on closes, it leaves the
\* pool and the client sockets of its pairs are destroyed; once closed it is
\* never in the pool again, no acquirer is given it and no release of it takes
\* effect
UpstreamCloses(s) == sock[s] \in {"open", "ended", "destroyed"} /\ sock'[s] = "closed"
C28_ClosedUpstreamIsGone ==
  [][\A s \in Socks :
       /\ (UpstreamCloses(s) /\ PipedOn(Cur, s) # {}) =>
            /\ ~InPool(s)'
            /\ \A c \in PipedOn(Cur, s) : client'[c].local \in {"closing", "closed"}
       /\ sock[s] = "closed" =>
            /\ ~InPool(s)'
            /\ \A c \in Clients :
                  /\ ~Obtains(c, s)
                  /\ client[c].target = s => releases'[c] = releases[c]]_vars
\* C28 witness: the upstream socket of a pair closed first, and then its client
\* socket, whose 'close' handler released nothing
C28_Witness ==
  \E c \in Clients :
     /\ client[c].st = "piped" /\ client[c].local = "closed"
     /\ sock[client[c].target] = "closed"
     /\ releases[c] = 0

\* C37: stats.activeConnections is never negative
C37_ActiveNeverNegative == stats.activeConnections >= 0

\* C38: at any time at most one connected client is piped on an upstream socket
\* that is open, so what the upstream sends on it reaches that client only
Receivers(s) == {c \in PipedOn(Cur, s) : client[c].local = "open"}
C38_OneClientPerUpstream ==
  \A s \in Socks : sock[s] = "open" => Cardinality(Receivers(s)) <= 1

\* C33: destroy() resolves every queued acquirer with null and empties the
\* queue, destroys every pooled socket, idle or lent, and stops the monitor and
\* cleanup ticks; an acquirer it resolved is not resolved again when its timer
\* fires
Destroys == intervals = "armed" /\ intervals' = "cleared"
Queued == {waitingQueue[i].resolve[1] : i \in 1..Len(waitingQueue)}
TickRuns ==
  \/ lastScaleAge' = 0 /\ lastScaleAge # 0
  \/ \E s \in Socks : Reaped(s)
C33_DestroyResolvesAndCloses ==
  [][/\ Destroys =>
          /\ waitingQueue' = <<>>
          /\ \A c \in Queued : client'[c].st = "dropped" /\ client'[c].target = NoSock
          /\ pool' = <<>>
          /\ \A s \in Socks : InPool(s) => sock'[s] \in {"destroyed", "closed"}
     /\ (intervals = "cleared" /\ ~Destroys) => intervals' = "cleared" /\ ~TickRuns
     /\ \A c \in Clients :
          client[c].st = "dropped"
             => client'[c].st = "dropped" /\ client'[c].target = NoSock]_vars
\* C33 witness: destroy() has resolved a queued acquirer whose timer is still
\* pending, and destroyed a socket
C33_Witness ==
  /\ intervals = "cleared"
  /\ \E t \in timers : t.age < waitTimeout /\ client[t.resolve[1]].st = "dropped"
  /\ \E s \in Socks : sock[s] = "destroyed"

\* C40: once destroy() has run the pool stays empty and no upstream socket is
\* open or becomes open
C40_DestroyedPoolStaysEmpty ==
  intervals = "cleared" => pool = <<>> /\ \A s \in Socks : sock[s] # "open"

\* C31: at most one scaling operation is in progress at any time: the lock is
\* held exactly while the dials of a scaleUp are in flight, and while it is held
\* the monitor starts no scaling and getConnection dials nothing
Scaling == {s \in Socks : sock[s] = "dialing" /\ dialer[s].by = "scaleUp"}
StartsScaling == lastScaleAge' = 0 /\ lastScaleAge # 0
StartsDial == \E s \in Socks : sock'[s] = "dialing" /\ sock[s] # "dialing"
C31_OneScalingAtATime ==
  [][/\ scalingLock <=> Scaling # {}
     /\ Cardinality(Scaling) <= scaleUpStep
     /\ scalingLock => ~StartsScaling /\ ~StartsDial
     /\ (scalingLock /\ ~scalingLock') => Scaling' = {} /\ stats'.poolScales = stats.poolScales + 1
     /\ (StartsScaling /\ ~scalingLock') => Scaling' = {}]_vars
\* C31 witness: a scaleUp is in progress while a client is waiting for a socket,
\* and the interval since the last scaling has elapsed again
C31_Witness ==
  /\ scalingLock
  /\ waitingQueue # <<>>
  /\ lastScaleAge >= scaleInterval

\* C16: at most one session and one open upstream socket per client
\* (address, port); a datagram of a client that has a session goes out through
\* that session's socket and opens no socket; a socket is opened only for a
\* client without a session
C16_OneSessionPerClient ==
  /\ [](\A k \in Peers :
          /\ Cardinality(OpenFor(udp, k)) <= 1
          /\ udpKey(PeerInfo(k)) \in DOMAIN udp.clients
                <=> OpenFor(udp, k) # {}
          /\ udpKey(PeerInfo(k)) \in DOMAIN udp.clients
                => udp.clients[udpKey(PeerInfo(k))].targetSocket \in OpenFor(udp, k))
  /\ [][\A k \in Peers :
          LET key == udpKey(PeerInfo(k))
              d == [socket |-> udp'.clients[key].targetSocket,
                    message |-> [from |-> k, n |-> udp'.sentCount[k]]]
          IN  /\ (Sends(k) /\ key \in DOMAIN udp.clients)
                   => /\ udp'.clients[key].targetSocket = udp.clients[key].targetSocket
                      /\ FreeUdpSocks(udp') = FreeUdpSocks(udp)
                      /\ d \in udp'.inFlight
              /\ (Sends(k) /\ key \notin DOMAIN udp.clients)
                   => /\ Cardinality(FreeUdpSocks(udp')) = Cardinality(FreeUdpSocks(udp)) - 1
                      /\ d \in udp'.inFlight
              /\ FreeUdpSocks(udp') # FreeUdpSocks(udp)
                   => \E j \in Peers : Sends(j) /\ udpKey(PeerInfo(j)) \notin DOMAIN udp.clients]_vars

\* C16 witness: a client sent two datagrams through the one socket of its session
C16_Witness ==
  \E k \in Peers :
    /\ udp.sentCount[k] = 2
    /\ Cardinality({s \in UdpSocks : udp.sockets[s].info = PeerInfo(k)}) = 1
    /\ \A n \in 1..2 : [socket |-> udp.clients[udpKey(PeerInfo(k))].targetSocket,
                          message |-> [from |-> k, n |-> n]] \in udp.inFlight

\* C17: every datagram delivered to a client is one that this client sent,
\* unchanged: the echo of a datagram goes to its sender and to nobody else
C17_EchoGoesToItsSender ==
  \A d \in udp.delivered :
    /\ d.to = PeerInfo(d.message.from)
    /\ d.message.n \in 1..udp.sentCount[d.message.from]

\* C17 witness: both clients have received an echo
C17_Witness ==
  \A k \in Peers : \E d \in udp.delivered : d.to = PeerInfo(k)

\* the step is a firing of the sweep interval
Sweeps == udp'.now # udp.now

\* C18: lastActivity of a session never decreases; the sweep removes a session
\* only if now - lastActivity > clientTimeout and leaves the others untouched
C18_EvictionStrictlyAfterTimeout ==
  [][\A key \in DOMAIN udp.clients :
       /\ (key \in DOMAIN udp'.clients
             /\ udp'.clients[key].targetSocket = udp.clients[key].targetSocket)
            => udp'.clients[key].lastActivity >= udp.clients[key].lastActivity
       /\ Sweeps =>
            IF udp'.now - udp.clients[key].lastActivity > clientTimeout
            THEN TRUE
            ELSE /\ key \in DOMAIN udp'.clients
                 /\ udp'.clients[key] = udp.clients[key]
                 /\ udp'.sockets[udp.clients[key].targetSocket].st = "open"]_vars

\* C18 witness: a sweep has run with a session exactly clientTimeout old, and
\* the session is still there
C18_Witness ==
  \E key \in DOMAIN udp.clients :
    /\ udp.now - udp.clients[key].lastActivity = clientTimeout
    /\ udp.sockets[udp.clients[key].targetSocket].st = "open"

\* sessions the sweep finds past the timeout
Stale(U, now) == {key \in DOMAIN U.clients : now - U.clients[key].lastActivity > clientTimeout}

\* C19: the first sweep that runs with a session past clientTimeout removes it:
\* its upstream socket is closed, its entry leaves the table and activeClients
\* decreases by one per removed session; so no session past the timeout is ever
\* left in the table of a running proxy
C19_SilentClientIsEvicted ==
  /\ [](udp.cleanupInterval = "armed" => Stale(udp, udp.now) = {})
  /\ [][Sweeps =>
          /\ \A key \in Stale(udp, udp'.now) :
                /\ key \notin DOMAIN udp'.clients
                /\ udp'.sockets[udp.clients[key].targetSocket].st = "closed"
          /\ activeClients(udp') = activeClients(udp) - Cardinality(Stale(udp, udp'.now))]_vars

\* C19 witness: a client sent one datagram and stayed silent; the sweep, and
\* nothing else, has removed its session and closed its socket
C19_Witness ==
  \E k \in Peers :
    /\ udp.sentCount[k] = 1
    /\ udp.stats.errors = 0 /\ udp.stops = 0
    /\ udpKey(PeerInfo(k)) \notin DOMAIN udp.clients
    /\ \E s \in UdpSocks : udp.sockets[s] = [st |-> "closed", info |-> PeerInfo(k)]
    /\ activeClients(udp) = udp.stats.clientConnections - 1

\* C6: with the pool saturated and no failure in the run, the socket that a
\* holder's client close passes on to the queued acquirer is one its traffic can
\* be forwarded over: it is open for writing when the waiter's pipe is installed.
C6_WaiterGetsUsableSocket ==
  [][\A c \in Clients :
       (client[c].st = "handoff" /\ client'[c].st = "piped" /\ disturbances = 0)
          => sock'[client'[c].target] = "open"]_vars

InQueue(q, r) == \E i \in 1..Len(q) : q[i].resolve = r

\* the setTimeout callback armed for resolve function r runs in this step
TimerFires(r) ==
  /\ \E t \in timers : t.resolve = r
  /\ \A t \in timers' : t.resolve # r

\* C7: when the 5 s timer of an acquirer fires while it is still queued, the
\* acquirer leaves the queue, its client socket is destroyed and no pipe is
\* installed for it, then or later.
C7_TimeoutDropsClient ==
  [][/\ \A t \in timers :
          (TimerFires(t.resolve) /\ InQueue(waitingQueue, t.resolve))
             => /\ ~InQueue(waitingQueue', t.resolve)
                /\ Len(waitingQueue') = Len(waitingQueue) - 1
                /\ stats'.waitingRequests = stats.waitingRequests - 1
                /\ client'[t.resolve[1]].st = "dropped"
                /\ client'[t.resolve[1]].local \in {"closing", "closed"}
                /\ client'[t.resolve[1]].target = NoSock
     /\ \A c \in Clients :
          client[c].st = "dropped"
             => client'[c].st = "dropped" /\ client'[c].target = NoSock]_vars

\* C7 witness: a queued acquirer timed out and its client was dropped
C7_Witness == \E c \in Clients : client[c].st = "dropped" /\ client[c].local = "closed"

\* C8: when the timer armed at an acquirer's enqueue fires, the acquirer has
\* been resolved (a socket was assigned to it, or it got the unavailable value).
C8_ResolvedByOwnTimer ==
  [][\A t \in timers :
       TimerFires(t.resolve) => client'[t.resolve[1]].st \notin {"queue", "requeue", "dial"}]_vars

\* C9: a socket whose forwarding pair saw an 'error' is never handed to another
\* acquirer, as an idle pick or through the release hand-off.
C9_ErroredSocketNotHandedOut ==
  [][\A c \in Clients :
       (client'[c].target # client[c].target /\ client'[c].target # NoSock)
          => client'[c].target \notin errored']_vars

\* C32: a dial that fails adds one to stats.errors and changes nothing else of
\* the pool; the acquirer it was made for enters the waiting queue with its
\* client socket untouched, and is later given a socket or the null value; a
\* client that connects afterwards is still served from the idle entries.
\* (A run in which removeConnection sends an acquirer back to getConnection
\* when no socket of the model is left to dial with is outside the model's
\* bound: its setImmediate callback cannot run and the clock stops.)
DialFails(s) == sock[s] = "dialing" /\ sock'[s] = "closed"
OutOfSockets ==
  /\ \E c \in Clients : client[c].st = "requeue"
  /\ ~CanGetConnection(Cur)
Arrives(c) == client[c].st = "new" /\ client'[c].st # "new"
C32_FailedDialFallsBackToQueue ==
  /\ [][/\ \A s \in Socks :
              DialFails(s) =>
                /\ stats'.errors = stats.errors + 1
                /\ pool' = pool
                /\ dialer[s].by = "getConnection" =>
                     /\ client'[dialer[s].client].st = "queue"
                     /\ client'[dialer[s].client].local = client[dialer[s].client].local
                     /\ InQueue(waitingQueue', <<dialer[s].client, client'[dialer[s].client].gen>>)
                     /\ Len(waitingQueue') = Len(waitingQueue) + 1
                     /\ stats'.waitingRequests = stats.waitingRequests + 1
         /\ \A c \in Clients :
              (stats.errors > 0 /\ Arrives(c)) =>
                 /\ client'[c].st \in {"piped", "dial", "queue"}
                 /\ IdleEntries # {} => client'[c].st = "piped"]_vars
  /\ \A c \in Clients :
       (client[c].st = "queue")
          ~> (client[c].st \in {"piped", "dropped"} \/ OutOfSockets)
\* C32 witness: the dial made for client 1 has failed and client 1 is in the
\* queue; client 2, which connected later, holds a socket of the pool
C32_Witness ==
  /\ stats.errors = 1
  /\ sock[1] = "open" /\ sock[2] = "open" /\ sock[3] = "closed"
  /\ client[1].st = "queue"
  /\ client[2].st = "piped"

\* C34: a session's lastActivity is set to the current time by every datagram
\* of the session, from the client and from the upstream alike
FromClient(k) == udp'.sentCount[k] = udp.sentCount[k] + 1
FromUpstream(d) == d \in udp.inFlight /\ d \notin udp'.inFlight /\ udp'.delivered # udp.delivered
SessionOf(s) == udpKey(udp.sockets[s].info)
C34_EveryPacketRefreshes ==
  [][/\ \A k \in Peers :
          FromClient(k) => udp'.clients[udpKey(PeerInfo(k))].lastActivity = udp'.now
     /\ \A d \in udp.inFlight :
          FromUpstream(d) => udp'.clients[SessionOf(d.socket)].lastActivity = udp'.now]_vars

\* C35: a send() that fails, towards the target or back to the client, adds one
\* to stats.errors and leaves every session and every upstream socket as it
\* was (creating the sender's session if it is new); a step that counts an
\* error and removes a session is the 'error' event of that session's upstream
\* socket: it closes that socket and removes that session only
SendFails(m) == m \notin udp.failed /\ m \in udp'.failed
Messages == {[from |-> k, n |-> n] : k \in Peers, n \in 1..MaxDatagrams}
Sender(m) == udpKey(PeerInfo(m.from))
Removed == DOMAIN udp.clients \ DOMAIN udp'.clients
C35_SendFailureKeepsSession ==
  [][/\ \A m \in Messages :
          SendFails(m) =>
            /\ udp'.stats.errors = udp.stats.errors + 1
            /\ Removed = {}
            /\ \A key \in DOMAIN udp.clients :
                 udp'.clients[key].targetSocket = udp.clients[key].targetSocket
            /\ \A s \in UdpSocks :
                 udp.sockets[s].st = "open" => udp'.sockets[s].st = "open"
            /\ Sender(m) \in DOMAIN udp'.clients
            /\ udp'.sockets[udp'.clients[Sender(m)].targetSocket].st = "open"
     /\ (udp'.stats.errors # udp.stats.errors /\ Removed # {}) =>
          /\ Cardinality(Removed) = 1
          /\ \A key \in Removed :
               /\ udp.sockets[udp.clients[key].targetSocket].st = "open"
               /\ udp'.sockets[udp.clients[key].targetSocket].st = "closed"
          /\ \A key \in DOMAIN udp'.clients :
               /\ key \in DOMAIN udp.clients
               /\ udp'.clients[key] = udp.clients[key]
               /\ udp'.sockets[udp.clients[key].targetSocket]
                    = udp.sockets[udp.clients[key].targetSocket]]_vars
\* C35 witness: two sessions are open, a send to the target and a send back to
\* a client have failed, and the sessions are still there
C35_Witness ==
  /\ udp.stats.errors = 2
  /\ \E m \in udp.failed : \E n \in udp.failed :
       /\ m # n
       /\ \E d \in udp.delivered : d.message.from = m.from
  /\ Cardinality(DOMAIN udp.clients) = 2
  /\ \A key \in DOMAIN udp.clients : udp.sockets[udp.clients[key].targetSocket].st = "open"

\* C36: a valid range rule [localStart, localEnd] / [targetStart, targetEnd]
\* yields localEnd - localStart + 1 forwarders, the i-th listening on
\* localStart + i and forwarding to targetStart + i; each TCP forwarder has the
\* pool of its own target port, each UDP forwarder its own session table
ValidRange(r) ==
  /\ TwoElementArray(r.localPortRange) /\ TwoElementArray(r.targetPortRange)
  /\ r.localPortRange.items[1] <= r.localPortRange.items[2]
  /\ r.targetPortRange.items[1] <= r.targetPortRange.items[2]
  /\ r.localPortRange.items[2] - r.localPortRange.items[1]
       = r.targetPortRange.items[2] - r.targetPortRange.items[1]
Width(r) == r.localPortRange.items[2] - r.localPortRange.items[1] + 1
C36_RangeYieldsParallelPairs ==
  (Started /\ ValidRange(rule)) =>
    /\ servers.outcome = "returned"
    /\ Len(servers.list) = Width(rule)
    /\ Len(servers.targets) = Width(rule)
    /\ \A i \in 0..(Width(rule) - 1) :
         /\ servers.list[i + 1] = rule.localPortRange.items[1] + i
         /\ servers.targets[i + 1] = rule.targetPortRange.items[1] + i
    /\ \/ /\ servers.pools = Range(servers.targets)
          /\ Cardinality(servers.pools) = Width(rule)
          /\ servers.tables = {}
       \/ /\ servers.tables = Range(servers.list)
          /\ Cardinality(servers.tables) = Width(rule)
          /\ servers.pools = {}
\* C36 witness: a three-port TCP range onto different target ports is started
C36_Witness ==
  /\ Started
  /\ ValidRange(rule)
  /\ Width(rule) = 3
  /\ servers.pools # {}

====
